---- MODULE Spec2Model ----
(***************************************************************************)
(* Credential lifecycle, error adapter and read-modify-write tools of the  *)
(* gapi MCP server (src/server.py).                                        *)
(*                                                                         *)
(* Python values are modelled as follows.  An optional value is None or    *)
(* Some(x).  A dict is a function from its keys.  The text of a JSON file  *)
(* is the sequence of its tokens.  A datetime is an integer instant; its   *)
(* ISO-8601 text is [iso |-> instant].                                     *)
(***************************************************************************)
EXTENDS Integers, Sequences, FiniteSets, TLC

\* ---- bounds ----
MaxTime == 4
TokenLifetime == 2

\* ---- Python values ----
None == [some |-> FALSE]
Some(x) == [some |-> TRUE, v |-> x]
TruthyStr(o) == o.some /\ o.v # ""
TruthyList(o) == o.some /\ o.v # <<>>
EmptyDict == [k \in {} |-> None]
Get(d, k, default) == IF k \in DOMAIN d THEN d[k] ELSE default
Put(d, k, val) == [y \in DOMAIN d \cup {k} |-> IF y = k THEN val ELSE d[y]]
Pop(d, k) == [y \in DOMAIN d \ {k} |-> d[y]]

\* ---- configuration (src/server.py 20-27) ----
SCOPES == <<"calendar", "calendar.events", "tasks">>
DefaultTokenUri == "https://oauth2.googleapis.com/token"

\* ---- JSON text ----
LBrace == [t |-> "{"]
RBrace == [t |-> "}"]
LBracket == [t |-> "["]
RBracket == [t |-> "]"]
KeyTok(k) == [t |-> "key", k |-> k]
ValTok(val) == [t |-> "val", v |-> val]

RECURSIVE DumpItems(_)
DumpItems(items) ==
    IF Len(items) = 0 THEN <<>>
    ELSE <<KeyTok(items[1][1]), ValTok(items[1][2])>> \o DumpItems(Tail(items))

\* json.dumps of a dict given as its items in insertion order
json_dumps(items) == <<LBrace>> \o DumpItems(items) \o <<RBrace>>

IsPairs(mid) ==
    /\ Len(mid) % 2 = 0
    /\ \A i \in 1..Len(mid) : mid[i].t = (IF i % 2 = 1 THEN "key" ELSE "val")

\* the dict of a sequence of key/value tokens; a repeated key keeps its last value
ToDict(mid) ==
    LET odd == {i \in 1..Len(mid) : i % 2 = 1}
        keys == {mid[i].k : i \in odd}
        last(k) == CHOOSE i \in odd : mid[i].k = k /\ \A j \in odd : (j > i => mid[j].k # k)
    IN [k \in keys |-> mid[last(k) + 1].v]

\* json.loads: a dict, a list, or a JSONDecodeError
json_loads(text) ==
    LET n == Len(text) IN
    IF n >= 2 /\ text[1].t = "{" /\ text[n].t = "}" /\ IsPairs(SubSeq(text, 2, n - 1))
    THEN [kind |-> "dict", d |-> ToDict(SubSeq(text, 2, n - 1))]
    ELSE IF n = 2 /\ text[1].t = "[" /\ text[2].t = "]"
    THEN [kind |-> "list", d |-> EmptyDict]
    ELSE [kind |-> "error", d |-> EmptyDict]

\* ---- credential file ----
Absent == [exists |-> FALSE, text |-> <<>>]
FileOf(text) == [exists |-> TRUE, text |-> text]

isoformat(e) == [iso |-> e]

\* the dict _save_creds builds, as its items in insertion order
save_data(creds) ==
    LET data == << <<"token", creds.token>>,
                   <<"refresh_token", creds.refresh_token>>,
                   <<"token_uri", creds.token_uri>>,
                   <<"client_id", creds.client_id>>,
                   <<"client_secret", creds.client_secret>>,
                   <<"scopes", Some(IF TruthyList(creds.scopes) THEN creds.scopes.v ELSE SCOPES)>> >>
    IN IF creds.expiry.some
       THEN Append(data, <<"expiry", Some(isoformat(creds.expiry.v))>>)
       ELSE data

\* the text _save_creds writes
_save_creds(creds) == json_dumps(save_data(creds))

\* the Credentials object _load_creds builds from the parsed file
Credentials(data) ==
    [token |-> Get(data, "token", None),
     refresh_token |-> Get(data, "refresh_token", None),
     token_uri |-> Get(data, "token_uri", Some(DefaultTokenUri)),
     client_id |-> Get(data, "client_id", None),
     client_secret |-> Get(data, "client_secret", None),
     scopes |-> Get(data, "scopes", Some(SCOPES)),
     expiry |-> None]

\* google-auth: creds.expired and creds.valid, as _load_creds uses them
expired(creds, t) == creds.expiry.some /\ t >= creds.expiry.v
valid(creds, t) == creds.token.some /\ ~expired(creds, t)

\* creds.refresh(Request()) on success: token and expiry replaced
refresh(creds, t) ==
    [creds EXCEPT !.token = Some("tokR"), !.expiry = Some(t + TokenLifetime)]

\* flow.run_local_server(port=0) on success
run_local_server(t) ==
    [token |-> Some("tokF"), refresh_token |-> Some("rt"),
     token_uri |-> Some(DefaultTokenUri), client_id |-> Some("cid"),
     client_secret |-> Some("csec"), scopes |-> Some(SCOPES),
     expiry |-> Some(t + TokenLifetime)]

\* the existence test of line 69 left out
ClientSecretMissing_unchecked(cs) == FALSE
ClientSecretMissing(cs) == ~cs

AuthRaise(exc, f, nr, nf, ns) ==
    [out |-> exc, creds |-> None, file |-> f, refreshes |-> nr, flows |-> nf, saves |-> ns]
AuthReturn(c, f, nr, nf, ns) ==
    [out |-> "ok", creds |-> Some(c), file |-> f, refreshes |-> nr, flows |-> nf, saves |-> ns]

\* _load_creds on credential file f, client_secret.json present iff cs, at
\* time t; refreshOk and flowOk are the outcomes of the two network exchanges
_load_creds(f, cs, t, refreshOk, flowOk) ==
    LET parsed == IF f.exists THEN json_loads(f.text) ELSE [kind |-> "absent", d |-> EmptyDict]
    IN
    IF parsed.kind = "error" THEN AuthRaise("JSONDecodeError", f, 0, 0, 0)
    ELSE IF parsed.kind = "list" THEN AuthRaise("AttributeError", f, 0, 0, 0)
    ELSE
    LET creds0 == IF f.exists THEN Some(Credentials(parsed.d)) ELSE None
        doRefresh == creds0.some /\ expired(creds0.v, t) /\ TruthyStr(creds0.v.refresh_token)
    IN
    IF doRefresh /\ ~refreshOk THEN AuthRaise("RefreshError", f, 1, 0, 0)
    ELSE
    LET creds1 == IF doRefresh THEN Some(refresh(creds0.v, t)) ELSE creds0
        f1 == IF doRefresh THEN FileOf(_save_creds(creds1.v)) ELSE f
        nr == IF doRefresh THEN 1 ELSE 0
    IN
    IF creds1.some /\ valid(creds1.v, t) THEN AuthReturn(creds1.v, f1, nr, 0, nr)
    ELSE IF ClientSecretMissing(cs) THEN AuthRaise("RuntimeError", f1, nr, 0, nr)
    ELSE IF ~flowOk THEN AuthRaise("FlowError", f1, nr, 1, nr)
    ELSE LET c2 == run_local_server(t)
         IN AuthReturn(c2, FileOf(_save_creds(c2)), nr, 1, nr + 1)

\* ---- error adapter (src/server.py 89-99) ----
ExceptionClasses ==
    {"HttpError", "JSONDecodeError", "AttributeError", "RefreshError",
     "RuntimeError", "FlowError", "TransportError", "KeyError"}

NoResult == [kind |-> "none", category |-> "", fault |-> ""]
Text(category, fault) == [kind |-> "text", category |-> category, fault |-> fault]
Propagated(fault) == [kind |-> "raised", category |-> "", fault |-> fault]
Returned == [raised |-> FALSE, exc |-> ""]
Raised(exc) == [raised |-> TRUE, exc |-> exc]

\* the adapter with only its first except clause
wrapper_http_only(o) ==
    IF ~o.raised THEN Text("success", "")
    ELSE IF o.exc = "HttpError" THEN Text("remote", o.exc)
    ELSE Propagated(o.exc)

\* what the caller of a wrapped tool gets for the outcome o of the tool body
wrapper(o) ==
    IF ~o.raised THEN Text("success", "")
    ELSE IF o.exc = "HttpError" THEN Text("remote", o.exc)
    ELSE IF o.exc \in ExceptionClasses THEN Text("generic", o.exc)
    ELSE Propagated(o.exc)

\* ---- tool layer ----
CalendarTools ==
    {"list_calendars", "get_events", "create_event", "modify_event", "delete_event", "freebusy"}
TaskTools ==
    {"list_task_lists", "list_tasks", "get_task", "create_task", "update_task", "delete_task"}
Tools == CalendarTools \cup TaskTools
RMWTools == {"modify_event", "update_task"}
ToolApi(tl) == IF tl \in CalendarTools THEN "calendar" ELSE "tasks"
ToolCalls(tl) == IF tl \in RMWTools THEN 2 ELSE 1
CallOutcomes == {"ok", "HttpError", "TransportError"}
\* freebusy indexes period['start'] / period['end'] while formatting
FormatOutcomes(tl) == IF tl = "freebusy" THEN {"ok", "KeyError"} ELSE {"ok"}

DateLen == 10
D1 == "2026-03-01"
D2 == "2026-03-02"
DT1 == "2026-03-01T10:00:00Z"
DT2 == "2026-03-01T11:00:00Z"

Emails(seq) == [i \in 1..Len(seq) |-> [email |-> seq[i]]]

\* lines 293-307: the start / end object built from a provided time
EventTime(s, tz) ==
    IF Len(s) = DateLen THEN [date |-> s]
    ELSE IF TruthyStr(tz) THEN [dateTime |-> s, timeZone |-> tz.v]
    ELSE [dateTime |-> s]

\* "if value:" in place of "if value is not None:"
PutIfTruthy(d, k, o) == IF TruthyStr(o) THEN Put(d, k, o.v) ELSE d
PutIfGiven(d, k, o) == IF o.some THEN Put(d, k, o.v) ELSE d

\* lines 284-307: the body modify_event writes back for fetched event ev
modify_event_body(ev, p) ==
    LET e1 == PutIfGiven(ev, "summary", p.summary)
        e2 == PutIfGiven(e1, "description", p.description)
        e3 == PutIfGiven(e2, "location", p.location)
        e4 == IF p.attendees.some THEN Put(e3, "attendees", Emails(p.attendees.v)) ELSE e3
        e5 == IF p.start.some THEN Put(e4, "start", EventTime(p.start.v, p.timezone)) ELSE e4
    IN IF p.end.some THEN Put(e5, "end", EventTime(p.end.v, p.timezone)) ELSE e5

\* lines 506-511: the effect of a provided status
ApplyStatus(tk, status, t) ==
    LET t1 == Put(tk, "status", status)
    IN IF status = "completed" THEN Put(t1, "completed", isoformat(t))
       ELSE IF status = "needsAction" THEN Pop(t1, "completed")
       ELSE t1

\* lines 502-513: the body update_task writes back for fetched task tk at time t
update_task_body(tk, p, t) ==
    LET t1 == PutIfGiven(tk, "title", p.title)
        t2 == PutIfGiven(t1, "notes", p.notes)
        t3 == IF p.status.some THEN ApplyStatus(t2, p.status.v, t) ELSE t2
    IN PutIfGiven(t3, "due", p.due)

\* ---- inputs ----
\* credential sets found on disk when the server starts
StoredCreds ==
    {[token |-> tk, refresh_token |-> rt, token_uri |-> Some(DefaultTokenUri),
      client_id |-> Some("cid"), client_secret |-> Some("csec"),
      scopes |-> sc, expiry |-> ex] :
        tk \in {None, Some("tokA")}, rt \in {None, Some("rt")},
        sc \in {Some(SCOPES), Some(<<"calendar">>)},
        ex \in {None, Some(0), Some(MaxTime - 1)}}

TruncatedText == <<LBrace, KeyTok("token")>>
ListText == <<LBracket, RBracket>>
EmptyObjectText == <<LBrace, RBrace>>

InitFiles ==
    {Absent, FileOf(TruncatedText), FileOf(ListText), FileOf(EmptyObjectText)}
        \cup {FileOf(_save_creds(c)) : c \in StoredCreds}

\* events and tasks the remote service returns from get
Events ==
    {[id |-> "e1", summary |-> "Standup", location |-> "Room 1",
      attendees |-> <<[email |-> "a@x.org"]>>,
      start |-> [dateTime |-> DT1, timeZone |-> "Europe/Amsterdam"],
      end |-> [dateTime |-> DT2, timeZone |-> "Europe/Amsterdam"]],
     [id |-> "e2", summary |-> "Holiday", start |-> [date |-> D1], end |-> [date |-> D2]]}

TaskItems ==
    {[id |-> "t1", title |-> "Buy milk", status |-> "needsAction"],
     [id |-> "t2", title |-> "Pay rent", status |-> "completed", notes |-> "urgent",
      due |-> DT1, completed |-> isoformat(0)]}

EventParams ==
    [summary : {None, Some(""), Some("Review")},
     description : {None, Some("agenda")},
     location : {None, Some("Room 2")},
     attendees : {None, Some(<<>>), Some(<<"b@x.org">>)},
     start : {None, Some(D2), Some(DT2)},
     end : {None, Some(D2), Some(DT2)},
     timezone : {None, Some(""), Some("UTC")}]

TaskParams ==
    [title : {None, Some("Buy bread")},
     notes : {None, Some(""), Some("two loaves")},
     status : {None, Some("completed"), Some("needsAction")},
     due : {None, Some(DT2)}]

Resources(tl) == IF tl = "modify_event" THEN Events ELSE TaskItems
Params(tl) == IF tl = "modify_event" THEN EventParams ELSE TaskParams
MergedBody(tl, r, p, t) ==
    IF tl = "modify_event" THEN modify_event_body(r, p) ELSE update_task_body(r, p, t)

\* ---- state ----
VARIABLES
    credsFile,     \* credentials.json: [exists, text]
    clientSecret,  \* whether client_secret.json exists
    now,           \* the clock
    pc,            \* "idle", "auth", "call", "done"
    tool,          \* the tool being invoked
    auth,          \* what the _load_creds run of this invocation did
    calls,         \* the remote calls this invocation issued
    fetched,       \* the resource a read-modify-write tool fetched
    params,        \* the optional parameters of a read-modify-write tool
    body,          \* the body a read-modify-write tool writes back
    result,        \* what the caller receives
    spc,           \* credential store: position of the writer
    oldSet,        \* credential store: the set on disk before the save
    newSet,        \* credential store: the set being saved
    pending,       \* credential store: the text still to be written
    loaded         \* credential store: the set reconstructed from the file

vars == <<credsFile, clientSecret, now, pc, tool, auth, calls, fetched, params,
          body, result, spc, oldSet, newSet, pending, loaded>>
storeVars == <<spc, oldSet, newSet, pending, loaded>>
toolVars == <<pc, tool, auth, calls, fetched, params, body, result>>

NoAuth ==
    [out |-> "none", creds |-> None, refreshes |-> 0, flows |-> 0, saves |-> 0,
     pre |-> Absent, at |-> 0]

StoreIdle ==
    /\ spc = "unused"
    /\ oldSet = None
    /\ newSet = None
    /\ pending = <<>>
    /\ loaded = None

ToolsIdle ==
    /\ pc = "idle"
    /\ tool = "none"
    /\ auth = NoAuth
    /\ calls = <<>>
    /\ fetched = EmptyDict
    /\ params = EmptyDict
    /\ body = EmptyDict
    /\ result = NoResult

Init ==
    /\ credsFile \in InitFiles
    /\ clientSecret \in BOOLEAN
    /\ now = 1
    /\ ToolsIdle
    /\ StoreIdle

\* the MCP client invokes a tool
Invoke ==
    /\ pc = "idle"
    /\ \E tl \in Tools : tool' = tl
    /\ pc' = "auth"
    /\ UNCHANGED <<credsFile, clientSecret, now, auth, calls, fetched, params, body, result>>
    /\ UNCHANGED storeVars

\* _calendar() / _tasks(): build(..., credentials=_load_creds())
Authenticate ==
    /\ pc = "auth"
    /\ \E refreshOk \in BOOLEAN, flowOk \in BOOLEAN :
        LET r == _load_creds(credsFile, clientSecret, now, refreshOk, flowOk)
        IN /\ credsFile' = r.file
           /\ auth' = [out |-> r.out, creds |-> r.creds, refreshes |-> r.refreshes,
                       flows |-> r.flows, saves |-> r.saves, pre |-> credsFile, at |-> now]
           /\ IF r.out = "ok"
              THEN pc' = "call" /\ result' = result
              ELSE pc' = "done" /\ result' = wrapper(Raised(r.out))
    /\ UNCHANGED <<clientSecret, now, tool, calls, fetched, params, body>>
    /\ UNCHANGED storeVars

\* one remote call as the service handle issues it
CallEntry(o) ==
    [api |-> ToolApi(tool), token |-> auth.creds.v.token, at |-> now,
     file |-> credsFile, outcome |-> o]

\* modify_event / update_task: get the resource and apply the provided fields
RemoteGet ==
    /\ pc = "call"
    /\ tool \in RMWTools
    /\ Len(calls) = 0
    /\ \E o \in CallOutcomes, r \in Resources(tool), p \in Params(tool) :
        /\ calls' = Append(calls, CallEntry(o))
        /\ IF o = "ok"
           THEN /\ fetched' = r
                /\ params' = p
                /\ body' = MergedBody(tool, r, p, now)
                /\ pc' = "call"
                /\ result' = result
           ELSE /\ pc' = "done"
                /\ result' = wrapper(Raised(o))
                /\ UNCHANGED <<fetched, params, body>>
    /\ UNCHANGED <<credsFile, clientSecret, now, tool, auth>>
    /\ UNCHANGED storeVars

\* the last remote call of the tool and the formatting of its response
RemoteExecute ==
    /\ pc = "call"
    /\ Len(calls) = ToolCalls(tool) - 1
    /\ \E o \in CallOutcomes, fm \in FormatOutcomes(tool) :
        /\ calls' = Append(calls, CallEntry(o))
        /\ result' = wrapper(IF o # "ok" THEN Raised(o)
                             ELSE IF fm # "ok" THEN Raised(fm) ELSE Returned)
    /\ pc' = "done"
    /\ UNCHANGED <<credsFile, clientSecret, now, tool, auth, fetched, params, body>>
    /\ UNCHANGED storeVars

\* the result goes back to the caller; the next invocation may start
Return ==
    /\ pc = "done"
    /\ pc' = "idle"
    /\ tool' = "none"
    /\ auth' = NoAuth
    /\ calls' = <<>>
    /\ fetched' = EmptyDict
    /\ params' = EmptyDict
    /\ body' = EmptyDict
    /\ result' = NoResult
    /\ UNCHANGED <<credsFile, clientSecret, now>>
    /\ UNCHANGED storeVars

\* time passes between invocations (an invocation is short against the clock's unit)
Tick ==
    /\ pc = "idle"
    /\ now < MaxTime
    /\ now' = now + 1
    /\ UNCHANGED <<credsFile, clientSecret>>
    /\ UNCHANGED toolVars
    /\ UNCHANGED storeVars

Next == Invoke \/ Authenticate \/ RemoteGet \/ RemoteExecute \/ Return \/ Tick

Spec == Init /\ [][Next]_vars

\* ---- credential store, write by write (_save_creds 34-46, _load_creds 53-62) ----
StoreCreds ==
    {[token |-> tk, refresh_token |-> rt, token_uri |-> Some(DefaultTokenUri),
      client_id |-> Some("cid"), client_secret |-> Some("csec"),
      scopes |-> sc, expiry |-> ex] :
        tk \in {None, Some("tokA"), Some("tokB")}, rt \in {None, Some("rt")},
        sc \in {Some(SCOPES), Some(<<"calendar">>)},
        ex \in {None, Some(0), Some(MaxTime - 1)}}

\* the file opened for update, its old content kept
open_keep(text) == text

\* Path.write_text opens the file with mode 'w', which truncates it
open_w(text) == <<>>

\* a write of one token at offset pos
write_at(text, pos, tok) ==
    IF pos <= Len(text) THEN [text EXCEPT ![pos] = tok] ELSE Append(text, tok)

InitStore ==
    /\ oldSet \in {None} \cup {Some(c) : c \in StoreCreds}
    /\ credsFile = IF oldSet.some THEN FileOf(_save_creds(oldSet.v)) ELSE Absent
    /\ spc = "ready"
    /\ newSet = None
    /\ pending = <<>>
    /\ loaded = None
    /\ clientSecret = TRUE
    /\ now = 1
    /\ ToolsIdle

\* _save_creds builds the text to write (lines 36-45)
SaveBuild ==
    /\ spc = "ready"
    /\ \E c \in StoreCreds :
        /\ newSet' = Some(c)
        /\ pending' = _save_creds(c)
    /\ spc' = "built"
    /\ UNCHANGED <<credsFile, clientSecret, now, oldSet, loaded>>
    /\ UNCHANGED toolVars

\* write_text opens the file
SaveOpen ==
    /\ spc = "built"
    /\ credsFile' = FileOf(open_w(credsFile.text))
    /\ spc' = "writing"
    /\ UNCHANGED <<clientSecret, now, oldSet, newSet, pending, loaded>>
    /\ UNCHANGED toolVars

\* write_text writes the next piece of the text
SaveWrite ==
    /\ spc = "writing"
    /\ Len(pending) > 0
    /\ LET pos == Len(_save_creds(newSet.v)) - Len(pending) + 1
       IN credsFile' = FileOf(write_at(credsFile.text, pos, Head(pending)))
    /\ pending' = Tail(pending)
    /\ UNCHANGED <<clientSecret, now, spc, oldSet, newSet, loaded>>
    /\ UNCHANGED toolVars

\* write_text closes the file; _save_creds returns
SaveClose ==
    /\ spc = "writing"
    /\ Len(pending) = 0
    /\ spc' = "saved"
    /\ UNCHANGED <<credsFile, clientSecret, now, oldSet, newSet, pending, loaded>>
    /\ UNCHANGED toolVars

\* the process dies inside _save_creds
Crash ==
    /\ spc \in {"built", "writing"}
    /\ spc' = "crashed"
    /\ UNCHANGED <<credsFile, clientSecret, now, oldSet, newSet, pending, loaded>>
    /\ UNCHANGED toolVars

\* the next _load_creds rebuilds the credential from the file (lines 53-62)
Load ==
    /\ spc = "saved"
    /\ loaded' = Some(Credentials(json_loads(credsFile.text).d))
    /\ spc' = "loaded"
    /\ UNCHANGED <<credsFile, clientSecret, now, oldSet, newSet, pending>>
    /\ UNCHANGED toolVars

NextStore == SaveBuild \/ SaveOpen \/ SaveWrite \/ SaveClose \/ Crash \/ Load

SpecStore == InitStore /\ [][NextStore]_vars

\* ---- what a credential file says ----
ExpectedKeys == {"token", "refresh_token", "token_uri", "client_id", "client_secret", "scopes"}
IsCredFile(f) ==
    /\ f.exists
    /\ json_loads(f.text).kind = "dict"
    /\ ExpectedKeys \subseteq DOMAIN json_loads(f.text).d
StoredExpiry(f) ==
    LET d == json_loads(f.text).d
    IN IF IsCredFile(f) /\ "expiry" \in DOMAIN d /\ d["expiry"].some
       THEN Some(d["expiry"].v.iso) ELSE None
StoredToken(f) == IF IsCredFile(f) THEN json_loads(f.text).d["token"] ELSE None
\* the credential set the file holds, its expiry included
StoredSet(f) == [Credentials(json_loads(f.text).d) EXCEPT !.expiry = StoredExpiry(f)]
PastExpiry(f, t) == StoredExpiry(f).some /\ StoredExpiry(f).v < t
FutureExpiry(f, t) == StoredExpiry(f).some /\ StoredExpiry(f).v > t
Range(seq) == {seq[i] : i \in 1..Len(seq)}
AuthDone == auth.out # "none"
FailedCalls == {i \in 1..Len(calls) : calls[i].outcome # "ok"}

\* C1: whatever fault a tool invocation meets, the caller gets a text result,
\* no fault passes the tool boundary, and no remote call follows a failed one.
C1_FaultsBecomeText ==
    /\ result.kind # "raised"
    /\ pc = "done" => result.kind = "text"
    /\ (pc = "done" /\ (auth.out # "ok" \/ FailedCalls # {}))
          => result.category \in {"remote", "generic"}
    /\ Len(calls) <= ToolCalls(tool)
    /\ \A i \in FailedCalls : i = Len(calls)

C1_Witness ==
    /\ pc = "done"
    /\ tool = "delete_event"
    /\ Len(calls) = 1
    /\ calls[1].outcome = "HttpError"
    /\ result = Text("remote", "HttpError")

\* C2: a stored set with a past expiry and a refresh token makes _load_creds
\* do exactly one refresh exchange and exactly one save before it returns.
C2_OneRefreshOneSave ==
    (/\ auth.out = "ok"
     /\ PastExpiry(auth.pre, auth.at)
     /\ TruthyStr(StoredSet(auth.pre).refresh_token))
        => (auth.refreshes = 1 /\ auth.saves = 1)

\* C3: no remote call carries an access token whose stored expiry is in the
\* past, unless a refresh or a new authorization replaced the token first.
C3_NoStaleTokenOnCall ==
    \A i \in 1..Len(calls) :
        ~(/\ PastExpiry(calls[i].file, calls[i].at)
          /\ StoredToken(calls[i].file) = calls[i].token)

\* C4: a stored set with a future expiry is returned unchanged, with no
\* refresh, no interactive authorization and no write of the file.
C4_FutureExpiryUnchanged ==
    (/\ AuthDone
     /\ FutureExpiry(auth.pre, auth.at)
     /\ StoredToken(auth.pre).some)
        => (/\ auth.out = "ok"
            /\ auth.creds = Some(StoredSet(auth.pre))
            /\ auth.refreshes = 0
            /\ auth.flows = 0
            /\ auth.saves = 0
            /\ credsFile = auth.pre)

\* C5: the credential rebuilt from the file _save_creds wrote equals the
\* saved credential in every field, expiry included.
C5_SaveLoadRoundTrip ==
    spc = "loaded" => loaded = newSet

\* C6: every credential _load_creds returns has the three required scopes; a
\* stored set lacking one is not returned.
C6_ScopesSuperset ==
    auth.out = "ok" =>
        /\ auth.creds.v.scopes.some
        /\ Range(SCOPES) \subseteq Range(auth.creds.v.scopes.v)

\* C7: a credential file that exists but is not the expected structure ends
\* the call with a corrupt-store error text; no interactive flow starts and
\* the file is not overwritten.
C7_CorruptStoreSurfaced ==
    (AuthDone /\ auth.pre.exists /\ ~IsCredFile(auth.pre))
        => (/\ auth.out \in {"JSONDecodeError", "AttributeError"}
            /\ auth.flows = 0
            /\ credsFile = auth.pre
            /\ pc = "done" => result = Text("generic", auth.out))

\* C8: with no credential file and no client_secret.json, _load_creds fails
\* with the client-secret-missing fault, makes no refresh, no interactive
\* flow and no remote call, and creates no credential file.
C8_ClientSecretMissing ==
    (AuthDone /\ ~auth.pre.exists /\ ~clientSecret)
        => (/\ auth.out = "RuntimeError"
            /\ auth.refreshes = 0
            /\ auth.flows = 0
            /\ auth.saves = 0
            /\ calls = <<>>
            /\ credsFile = Absent
            /\ pc = "done" => result = Text("generic", "RuntimeError"))

C8_Witness ==
    /\ pc = "done"
    /\ ~auth.pre.exists
    /\ ~clientSecret
    /\ auth.out = "RuntimeError"
    /\ result = Text("generic", "RuntimeError")

\* ---- read-modify-write ----
BodyBuilt == tool \in RMWTools /\ Len(calls) >= 1 /\ calls[1].outcome = "ok"
SameAt(b, f, k) == (k \in DOMAIN b <=> k \in DOMAIN f) /\ (k \in DOMAIN f => b[k] = f[k])
\* a provided value is what the body holds under k; an omitted one leaves k as fetched
Overwrites(k, o) == IF o.some THEN k \in DOMAIN body /\ body[k] = o.v ELSE SameAt(body, fetched, k)
AllOmitted == \A k \in DOMAIN params : ~params[k].some
TimeValue(tm) == IF "date" \in DOMAIN tm THEN tm.date ELSE tm.dateTime
ZoneOf(d, k) == IF k \in DOMAIN d /\ "timeZone" \in DOMAIN d[k] THEN Some(d[k].timeZone) ELSE None
EventKeys == {"summary", "description", "location", "attendees", "start", "end"}
TaskKeys == {"title", "notes", "status", "due"}
OtherKeys(keys) == (DOMAIN body \cup DOMAIN fetched) \ keys

TimeWritten(k) ==
    LET v == params[k].v
        b == body[k]
    IN IF Len(v) = DateLen
       THEN b = [date |-> v]
       ELSE /\ DOMAIN b \subseteq {"dateTime", "timeZone"}
            /\ b.dateTime = v
            /\ ZoneOf(body, k) = (IF TruthyStr(params.timezone) THEN params.timezone ELSE None)

C10_NoMixedFile ==
    (spc = "crashed" /\ credsFile.exists /\ json_loads(credsFile.text).kind = "dict")
        => \/ oldSet.some /\ credsFile.text = _save_creds(oldSet.v)
           \/ credsFile.text = _save_creds(newSet.v)

C10_Witness ==
    /\ spc = "crashed"
    /\ oldSet.some
    /\ oldSet # newSet
    /\ Len(credsFile.text) > 2
    /\ Len(pending) > 0
    /\ json_loads(credsFile.text).kind = "error"

====
